---- MODULE Spec2Model ----
(***************************************************************************)
(* A model of nbref's AddCitationsPreprocessor                             *)
(* (src/nbref/AddCitationsPreprocessor.py): the citation scanner, the      *)
(* formatter adapter, the substitution engine and the document assembler.  *)
(*                                                                         *)
(* Text is a sequence of one-character strings.  Positions in the scanner  *)
(* are Python's 0-based indices, with -1 for "not found", as in the        *)
(* source; s[i] of the source is s[i+1] here.                              *)
(***************************************************************************)
EXTENDS Integers, Sequences, FiniteSets, TLC

VARIABLES
    cells,          \* nb.cells: sequence of [cell_type, source]
    pc,             \* position of the running method
    cell,           \* scanner: 1-based index of the cell being scanned
    start,          \* scanner: local start  (0-based, -1 = no '@' left)
    end,            \* scanner: local end    (the scan cursor)
    ranges,         \* scanner: local ranges of the current cell
    citations,      \* scanner: local citations, the list being built
    recorded,       \* history: every (cell, start, end) appended to ranges,
                    \* with the '@' it was found for (at) and the cursor of
                    \* that iteration (from)
    returned,       \* history: the list each completed call of
                    \* _extract_citations returned
    substitutions,  \* preprocess: subs, the table _process_citations returned
    references,     \* preprocess: refs, the block _process_citations returned
    error,          \* the exception that left preprocess, or "none"
    csl_file,       \* _process_citations: csl_file, the directory of csl_path
                    \* the style file was found in ("" before the lookup)
    calls,          \* history: style lookups, bibliography checks and
                    \* formatter invocations of the current run
    run,            \* "first" or "second" call of preprocess
    original,       \* history: nb.cells when preprocess was first entered
    stripped,       \* history: nb.cells after _clear_empty_cells
    finished,       \* history: nb.cells at the end of each completed run
    cslDirs,        \* file system: directories that hold the style file
    bibExists,      \* file system: os.path.isfile(self.bibliography)
    pandoc          \* the external formatter's behaviour

scanVars == <<cell, start, end, ranges, recorded, returned>>

pipeVars == <<substitutions, references, error, csl_file, calls, run,
              original, stripped, finished>>

envVars == <<cslDirs, bibExists, pandoc>>

vars == <<cells, pc, citations, scanVars, pipeVars, envVars>>

(***************************************************************************)
(* Bounds of the model.                                                    *)
(***************************************************************************)
MaxLen == 5

(***************************************************************************)
(* Python's str and list primitives, as the source uses them.              *)
(***************************************************************************)
Min(S) == CHOOSE x \in S : \A y \in S : x <= y

Max(S) == CHOOSE x \in S : \A y \in S : x >= y

Range(s) == {s[i] : i \in 1..Len(s)}

\* F(v) with v evaluated once, before F: TLC passes operator arguments by
\* name, Python by value
Let(F(_), v) == CHOOSE r \in {F(x) : x \in {v}} : TRUE

\* source.find(ch, from): lowest index >= from holding ch, or -1
Find(s, ch, from) ==
    LET hits == {i \in from..(Len(s) - 1) : s[i + 1] = ch}
    IN  IF hits = {} THEN -1 ELSE Min(hits)

\* source.rfind(ch, lo, hi): highest index in [lo, hi) holding ch, or -1
RFind(s, ch, lo, hi) ==
    LET top  == IF hi < Len(s) THEN hi ELSE Len(s)
        hits == {i \in lo..(top - 1) : s[i + 1] = ch}
    IN  IF hits = {} THEN -1 ELSE Max(hits)

\* source[a:b] for 0 <= a and 0 <= b
Slice(s, a, b) ==
    LET hi == IF b < Len(s) THEN b ELSE Len(s)
    IN  IF hi <= a THEN << >> ELSE SubSeq(s, a + 1, hi)

(***************************************************************************)
(* _is_index_in_ranges                                                     *)
(***************************************************************************)
IsIndexInRanges(index, rs) ==
    \E k \in 1..Len(rs) : index >= rs[k][1] /\ index < rs[k][2]

(***************************************************************************)
(* _extract_citations: one iteration of the while loop over one cell.      *)
(* st = [start, end, ranges, citations]; the result is the same record     *)
(* after the iteration, start being source.find('@', end).                 *)
(***************************************************************************)
\* the test of line 118 always true
QualifiesAnywhere(source, st) == TRUE

Qualifies(source, st) ==
    st.start = 0 \/ source[st.start] \in {"[", " ", "-"}

\* the bare citation end without the searches for ',' and '.'
BareEndAtSpace(source, from) ==
    LET end1 == Find(source, " ", from)
    IN  IF end1 = -1 THEN Len(source) ELSE end1

BareEnd(source, from) ==
    LET end1 == Find(source, " ", from)
        end2 == Find(source, ",", from)
        end3 == Find(source, ".", from)
        e1   == IF end1 = -1 THEN Len(source) ELSE end1
        e2   == IF end2 = -1 THEN Len(source) ELSE end2
        e3   == IF end3 = -1 THEN Len(source) ELSE end3
    IN  Min({e1, e2, e3})

ScanIter(source, st) ==
    IF Qualifies(source, st)
    THEN LET index    == RFind(source, "[", st.end, st.start)
             bracket  == ~(index = -1 \/ IsIndexInRanges(index, st.ranges))
             nstart   == IF bracket THEN index ELSE st.start
             nend     == IF bracket
                         THEN Find(source, "]", nstart) + 1
                         ELSE BareEnd(source, st.start)
             citation == Slice(source, nstart, nend)
         IN  [start     |-> Find(source, "@", nend),
              end       |-> nend,
              ranges    |-> Append(st.ranges, <<nstart, nend>>),
              citations |-> IF citation \in Range(st.citations)
                            THEN st.citations
                            ELSE Append(st.citations, citation)]
    ELSE [start     |-> Find(source, "@", st.start + 1),
          end       |-> st.start + 1,
          ranges    |-> st.ranges,
          citations |-> st.citations]

(***************************************************************************)
(* _extract_citations as a whole.  The while loop is deterministic in      *)
(* (start, end, set of ranges): it returns when start < 0 and never        *)
(* returns once that triple repeats.                                       *)
(***************************************************************************)
RECURSIVE ScanLoop(_, _, _)
ScanLoop(source, st, seen) ==
    LET at == <<st.start, st.end, Range(st.ranges)>>
    IN  IF st.start < 0 THEN [returns |-> TRUE, st |-> st]
        ELSE IF at \in seen THEN [returns |-> FALSE, st |-> st]
        ELSE Let(LAMBDA next : ScanLoop(source, next, seen \cup {at}),
                 ScanIter(source, st))

\* one pass of "for cell in nb.cells", from cell k on
RECURSIVE ExtractFrom(_, _, _, _)
ExtractFrom(nb, k, found, perCell) ==
    IF k > Len(nb)
    THEN [returns |-> TRUE, citations |-> found, ranges |-> perCell]
    ELSE LET source == nb[k].source
             Rest(res) ==
                 IF res.returns
                 THEN ExtractFrom(nb, k + 1, res.st.citations,
                                  Append(perCell, res.st.ranges))
                 ELSE [returns |-> FALSE, citations |-> res.st.citations,
                       ranges |-> Append(perCell, res.st.ranges)]
         IN  Let(Rest, ScanLoop(source,
                                [start     |-> Find(source, "@", 0),
                                 end       |-> 0,
                                 ranges    |-> << >>,
                                 citations |-> found],
                                {}))

ExtractCitations(nb) == ExtractFrom(nb, 1, << >>, << >>)

(***************************************************************************)
(* _is_cell_empty and _clear_empty_cells                                   *)
(***************************************************************************)
\* _is_cell_empty without the test of cell_type
IsCellEmptyOfAnyType(c) == c.source = << >>

IsCellEmpty(c) == c.cell_type = "code" /\ c.source = << >>

RECURSIVE ClearEmptyCells(_)
ClearEmptyCells(nb) ==
    IF nb = << >> THEN << >>
    ELSE IF ~IsCellEmpty(Head(nb))
         THEN <<Head(nb)>> \o ClearEmptyCells(Tail(nb))
         ELSE ClearEmptyCells(Tail(nb))

(***************************************************************************)
(* Configuration (the traitlets defaults) and _find_csl_file.              *)
(***************************************************************************)
header == <<"R", "e", "f", "e", "r", "e", "n", "c", "e", "s">>

\* csl_path: the current directory, then the packaged style directory
csl_path == <<".", "CSL">>

\* _find_csl_file returning the last candidate that is a file
FindLastCslFile(dirs) ==
    LET hits == {i \in 1..Len(csl_path) : csl_path[i] \in dirs}
    IN  IF hits = {} THEN 0 ELSE Max(hits)

\* the index in csl_path of the first directory holding the style file,
\* 0 when the loop ends without one (raise IOError)
FindCslFile(dirs) ==
    LET hits == {i \in 1..Len(csl_path) : csl_path[i] \in dirs}
    IN  IF hits = {} THEN 0 ELSE Min(hits)

(***************************************************************************)
(* The external formatter, pypandoc.convert_text with pandoc-citeproc.     *)
(* Its output is one line per paragraph of the request,                    *)
(*     <p><span class="citation">TEXT</span></p>                           *)
(* followed by the bibliography division and a final newline.  TEXT and    *)
(* the bibliography entries are functions of the marker alone: the         *)
(* formatter is deterministic.                                             *)
(***************************************************************************)
Prefix == <<"<", "p", ">", "<", "s", "p", "a", "n", " ", "c", "l", "a", "s",
            "s", "=", "\"", "c", "i", "t", "a", "t", "i", "o", "n", "\"", ">">>

Suffix == <<"<", "/", "s", "p", "a", "n", ">", "<", "/", "p", ">">>

\* the citation key text of a marker: the marker without '@' and brackets
KeyText(m) == SelectSeq(m, LAMBDA c : c \notin {"@", "[", "]"})

\* "(key)" for a bracketed marker, "key()" for a bare one
Render(m) ==
    IF m # << >> /\ m[1] = "["
    THEN <<"(">> \o KeyText(m) \o <<")">>
    ELSE KeyText(m) \o <<"(", ")">>

Entry(m) == <<"<", "p", ">">> \o KeyText(m) \o <<"<", "/", "p", ">">>

RECURSIVE Join(_, _)
Join(parts, sep) ==
    IF parts = << >> THEN << >>
    ELSE IF Len(parts) = 1 THEN parts[1]
    ELSE parts[1] \o sep \o Join(Tail(parts), sep)

\* the text pandoc writes for the request, per behaviour:
\*   "ok"     citation lines, then the bibliography
\*   "norefs" citation lines only (no entry of the bibliography is cited)
\*   "short"  nothing at all
ConvertText(markers, behaviour) ==
    LET cites == [i \in 1..Len(markers) |-> Prefix \o Render(markers[i]) \o Suffix]
        bib   == <<<<"<", "d", "i", "v", ">">>>>
                 \o [i \in 1..Len(markers) |-> Entry(markers[i])]
                 \o <<<<"<", "/", "d", "i", "v", ">">>>>
    IN  CASE behaviour = "ok"     -> Join(cites \o bib, <<"\n">>) \o <<"\n">>
          [] behaviour = "norefs" -> Join(cites, <<"\n">>) \o <<"\n">>
          [] OTHER                -> << >>

(***************************************************************************)
(* _process_citations, after the formatter returned: body.split('\n'),     *)
(* the table and the references block.                                     *)
(***************************************************************************)
\* text.split(sep) for a one-character sep
RECURSIVE Split(_, _)
Split(text, sep) ==
    LET at == Find(text, sep, 0)
    IN  IF at = -1 THEN <<text>>
        ELSE <<Slice(text, 0, at)>>
             \o Let(LAMBDA rest : Split(rest, sep),
                    Slice(text, at + 1, Len(text)))

PrefixLen == 26

SuffixLen == 11

\* line[26:], the end of the line kept
StripPrefixOnly(line) == Slice(line, PrefixLen, Len(line))

\* line[26:-11]
Strip(line) ==
    LET hi == IF Len(line) - SuffixLen < 0 THEN 0 ELSE Len(line) - SuffixLen
    IN  Slice(line, PrefixLen, hi)

Separator == <<"\n", "<", "p", ">", "<", "/", "p", ">", "\n">>

\* body[i] exists for every i in range(num_citations)
Aligned(markers, body) == Len(body) >= Len(markers)

\* the for loop over range(num_citations): later markers overwrite earlier
\* ones of the same text (there are none: the list is unique)
Table(markers, body) ==
    [m \in Range(markers) |->
        Strip(body[Max({i \in 1..Len(markers) : markers[i] = m})])]

References(markers, body) ==
    Join(SubSeq(body, Len(markers) + 1, Len(body)), Separator)

(***************************************************************************)
(* _process_citations.  The result says how the call ends ("returns",      *)
(* "raises", or "diverges" when _extract_citations never returns), what    *)
(* it returns and which external lookups and calls it made.                *)
(***************************************************************************)
NoCalls == [csl |-> 0, bib |-> 0, pandoc |-> 0]

\* lines 202-209: body = body.split('\n'), then the table and the block
Parse(base, output) ==
    LET markers == base.citations
        Fill(body) ==
            IF ~Aligned(markers, body)
            THEN [base EXCEPT !.outcome = "raises", !.error = "IndexError"]
            ELSE [base EXCEPT !.substitutions = Table(markers, body),
                              !.references = References(markers, body)]
    IN  Let(Fill, Split(output, "\n"))

\* "if num_citations == 0" never taken
NeverNoCitations(markers) == FALSE

\* if num_citations == 0: return (substitutions, references)
NoCitations(markers) == Len(markers) = 0

\* "if not os.path.isfile(self.bibliography)" never taken
BibliographyNeverMissing(bib) == FALSE

\* if not os.path.isfile(self.bibliography): raise IOError
BibliographyMissing(bib) == ~bib

\* lines 173-201, given what _extract_citations did
Resolve(ext, dirs, bib, behaviour) ==
    LET markers == ext.citations
        base    == [outcome       |-> "returns",
                    error         |-> "none",
                    csl_file      |-> "",
                    citations     |-> markers,
                    substitutions |-> << >>,
                    references    |-> << >>,
                    calls         |-> NoCalls]
    IN  IF ~ext.returns THEN [base EXCEPT !.outcome = "diverges"]
        ELSE IF NoCitations(markers) THEN base
        ELSE IF FindCslFile(dirs) = 0
        THEN [base EXCEPT !.outcome = "raises", !.error = "StyleFileNotFound",
                          !.calls = [NoCalls EXCEPT !.csl = 1]]
        ELSE IF BibliographyMissing(bib)
        THEN [base EXCEPT !.outcome = "raises", !.error = "BibliographyNotFound",
                          !.csl_file = csl_path[FindCslFile(dirs)],
                          !.calls = [NoCalls EXCEPT !.csl = 1, !.bib = 1]]
        ELSE IF behaviour = "fail"
        THEN [base EXCEPT !.outcome = "raises", !.error = "FormatterFailure",
                          !.csl_file = csl_path[FindCslFile(dirs)],
                          !.calls = [csl |-> 1, bib |-> 1, pandoc |-> 1]]
        ELSE Let(LAMBDA output :
                     Parse([base EXCEPT !.csl_file = csl_path[FindCslFile(dirs)],
                                        !.calls = [csl |-> 1, bib |-> 1,
                                                   pandoc |-> 1]],
                           output),
                 ConvertText(markers, behaviour))

ProcessCitations(nb, dirs, bib, behaviour) ==
    Let(LAMBDA ext : Resolve(ext, dirs, bib, behaviour), ExtractCitations(nb))

(***************************************************************************)
(* _substitute_citations: keys.sort(); keys.reverse(); then str.replace    *)
(* of every key, in that order, in every cell.                             *)
(***************************************************************************)
\* the printable ASCII characters, space (32) to underscore (95)
AsciiLow ==
    <<" ", "!", "\"", "#", "$", "%", "&", "'", "(", ")", "*", "+", ",", "-",
      ".", "/", "0", "1", "2", "3", "4", "5", "6", "7", "8", "9", ":", ";",
      "<", "=", ">", "?", "@", "A", "B", "C", "D", "E", "F", "G", "H", "I",
      "J", "K", "L", "M", "N", "O", "P", "Q", "R", "S", "T", "U", "V", "W",
      "X", "Y", "Z", "[", "\\", "]", "^", "_">>

\* and a (97) to tilde (126)
AsciiHigh ==
    <<"a", "b", "c", "d", "e", "f", "g", "h", "i", "j", "k", "l", "m", "n",
      "o", "p", "q", "r", "s", "t", "u", "v", "w", "x", "y", "z", "{", "|",
      "}", "~">>

\* the code point of a character
Ord(c) ==
    IF c = "\n" THEN 10
    ELSE IF c \in Range(AsciiLow)
    THEN 31 + (CHOOSE i \in 1..Len(AsciiLow) : AsciiLow[i] = c)
    ELSE 96 + (CHOOSE i \in 1..Len(AsciiHigh) : AsciiHigh[i] = c)

\* a < b for Python strings
LexLess(a, b) ==
    LET n    == IF Len(a) < Len(b) THEN Len(a) ELSE Len(b)
        diff == {i \in 1..n : a[i] # b[i]}
    IN  IF diff = {} THEN Len(a) < Len(b)
        ELSE Ord(a[Min(diff)]) < Ord(b[Min(diff)])

RECURSIVE Descending(_)
Descending(S) ==
    IF S = {} THEN << >>
    ELSE LET top == CHOOSE x \in S : \A y \in S \ {x} : LexLess(y, x)
         IN  Let(LAMBDA x : <<x>> \o Descending(S \ {x}), top)

RECURSIVE Ascending(_)
Ascending(S) ==
    IF S = {} THEN << >>
    ELSE LET low == CHOOSE x \in S : \A y \in S \ {x} : LexLess(x, y)
         IN  Let(LAMBDA x : <<x>> \o Ascending(S \ {x}), low)

\* keys.sort() without keys.reverse()
UnreversedKeys(S) == Ascending(S)

\* keys after keys.sort(); keys.reverse()
SortedKeys(S) == Descending(S)

RECURSIVE Interleave(_, _)
Interleave(s, new) ==
    IF s = << >> THEN new ELSE new \o <<Head(s)>> \o Interleave(Tail(s), new)

\* s.replace(old, new, 1): the first occurrence only
ReplaceFirst(s, old, new) ==
    IF old = << >> THEN new \o s
    ELSE LET hits == {i \in 0..(Len(s) - Len(old)) :
                          SubSeq(s, i + 1, i + Len(old)) = old}
         IN  IF hits = {} THEN s
             ELSE Slice(s, 0, Min(hits)) \o new
                  \o Slice(s, Min(hits) + Len(old), Len(s))

\* s.replace(old, new): every non-overlapping occurrence, left to right
RECURSIVE Replace(_, _, _)
Replace(s, old, new) ==
    IF old = << >> THEN Interleave(s, new)
    ELSE LET hits == {i \in 0..(Len(s) - Len(old)) :
                          SubSeq(s, i + 1, i + Len(old)) = old}
         IN  IF hits = {} THEN s
             ELSE Let(LAMBDA i :
                          Slice(s, 0, i) \o new
                          \o Let(LAMBDA rest : Replace(rest, old, new),
                                 Slice(s, i + Len(old), Len(s))),
                      Min(hits))

\* for old in keys: source = source.replace(old, substitutions[old])
RECURSIVE SubstituteSource(_, _, _)
SubstituteSource(source, keys, subs) ==
    IF keys = << >> THEN source
    ELSE Let(LAMBDA replaced : SubstituteSource(replaced, Tail(keys), subs),
             Replace(source, Head(keys), subs[Head(keys)]))

SubstituteCitations(nb, subs) ==
    LET Cells(keys) ==
            [i \in 1..Len(nb) |->
                [nb[i] EXCEPT !.source = SubstituteSource(@, keys, subs)]]
    IN  Let(Cells, SortedKeys(DOMAIN subs))

(***************************************************************************)
(* _add_references.  nb.cells[-2] raises IndexError on fewer than two      *)
(* cells.                                                                  *)
(***************************************************************************)
header_text == <<"#", "#", " ">> \o header

\* _add_references without the test for an existing references section
AddReferencesAlwaysAppends(nb, refs) ==
    IF refs = << >> THEN [raises |-> FALSE, cells |-> nb]
    ELSE [raises |-> FALSE,
          cells  |-> nb \o <<[cell_type |-> "markdown", source |-> header_text],
                             [cell_type |-> "markdown", source |-> refs]>>]

\* _add_references testing the length before nb.cells[-2]
AddReferencesOnShort(nb, refs) ==
    IF refs = << >> THEN [raises |-> FALSE, cells |-> nb]
    ELSE IF Len(nb) >= 2 /\ nb[Len(nb) - 1].source = header_text
    THEN [raises |-> FALSE,
          cells  |-> [nb EXCEPT ![Len(nb)].source = refs]]
    ELSE [raises |-> FALSE,
          cells  |-> nb \o <<[cell_type |-> "markdown", source |-> header_text],
                             [cell_type |-> "markdown", source |-> refs]>>]

\* _add_references without the test "if references:"
AddReferencesEvenIfEmpty(nb, refs) ==
    IF Len(nb) < 2 THEN [raises |-> TRUE, cells |-> nb]
    ELSE IF nb[Len(nb) - 1].source = header_text
    THEN [raises |-> FALSE,
          cells  |-> [nb EXCEPT ![Len(nb)].source = refs]]
    ELSE [raises |-> FALSE,
          cells  |-> nb \o <<[cell_type |-> "markdown", source |-> header_text],
                             [cell_type |-> "markdown", source |-> refs]>>]

AddReferences(nb, refs) ==
    IF refs = << >> THEN [raises |-> FALSE, cells |-> nb]
    ELSE IF Len(nb) < 2 THEN [raises |-> TRUE, cells |-> nb]
    ELSE IF nb[Len(nb) - 1].source = header_text
    THEN [raises |-> FALSE,
          cells  |-> [nb EXCEPT ![Len(nb)].source = refs]]
    ELSE [raises |-> FALSE,
          cells  |-> nb \o <<[cell_type |-> "markdown", source |-> header_text],
                             [cell_type |-> "markdown", source |-> refs]>>]

(***************************************************************************)
(* The scanner as a process: SpecScan runs _extract_citations alone, one   *)
(* loop iteration per step, over every short text of ScanAlphabet.         *)
(***************************************************************************)
ScanAlphabet == {"@", "[", "]", " ", ",", "-", "k"}

RECURSIVE TextsUpTo(_, _)
TextsUpTo(A, n) ==
    IF n = 0 THEN {<< >>}
    ELSE LET shorter == TextsUpTo(A, n - 1)
         IN  shorter \cup {Append(t, c) : t \in {u \in shorter : Len(u) = n - 1},
                                           c \in A}

Markdown(text) == [cell_type |-> "markdown", source |-> text]

Code(text) == [cell_type |-> "code", source |-> text]

\* more iterations than a terminating scan of these texts takes
MaxRanges == MaxLen + 2

\* preprocess is not running
Idle ==
    /\ substitutions = << >>
    /\ references = << >>
    /\ error = "none"
    /\ csl_file = ""
    /\ calls = NoCalls
    /\ run = "first"
    /\ original = cells
    /\ stripped = << >>
    /\ finished = << >>
    /\ cslDirs = {}
    /\ bibExists = FALSE
    /\ pandoc = "ok"

\* longer texts: the bracket of two keys, alone and glued to a bare marker,
\* a marker ended by a period, an address
ScanScenarios ==
    {<<"[", "@", "k", "1", " ", "@", "k", "2", "]">>,
     <<"@", "k", "[", "@", "k", "1", " ", "@", "k", "2", "]">>,
     <<"@", "k", ".", " ", "k">>,
     <<"u", "s", "e", "r", "@", "h", "o", "s", "t">>}

ScanInit ==
    /\ cells \in {<<Markdown(t)>> :
                      t \in TextsUpTo(ScanAlphabet, MaxLen) \cup ScanScenarios}
    /\ pc = "extract"
    /\ cell = 1
    /\ start = -1
    /\ end = 0
    /\ ranges = << >>
    /\ citations = << >>
    /\ recorded = << >>
    /\ returned = << >>
    /\ Idle

\* the loop over the cells with "ranges = []" left out
ScanCellKeepingRanges ==
    /\ pc = "extract"
    /\ cell <= Len(cells)
    /\ pc' = "scan"
    /\ start' = Find(cells[cell].source, "@", 0)
    /\ end' = 0
    /\ UNCHANGED <<cells, cell, ranges, citations, recorded, returned,
                   pipeVars, envVars>>

\* for cell in nb.cells: ranges = []; start = source.find('@', 0); end = 0
ScanCell ==
    /\ pc = "extract"
    /\ cell <= Len(cells)
    /\ pc' = "scan"
    /\ ranges' = << >>
    /\ start' = Find(cells[cell].source, "@", 0)
    /\ end' = 0
    /\ UNCHANGED <<cells, cell, citations, recorded, returned, pipeVars,
                   envVars>>

\* while start >= 0: one iteration
ScanStep ==
    /\ pc = "scan"
    /\ start >= 0
    /\ Len(ranges) < MaxRanges
    /\ \E st \in {ScanIter(cells[cell].source,
                           [start |-> start, end |-> end, ranges |-> ranges,
                            citations |-> citations])} :
           /\ start' = st.start
           /\ end' = st.end
           /\ ranges' = st.ranges
           /\ citations' = st.citations
           /\ recorded' = IF Len(st.ranges) > Len(ranges)
                          THEN Append(recorded,
                                      [cell  |-> cell,
                                       start |-> st.ranges[Len(st.ranges)][1],
                                       end   |-> st.ranges[Len(st.ranges)][2],
                                       at    |-> start,
                                       from  |-> end])
                          ELSE recorded
    /\ UNCHANGED <<cells, pc, cell, returned, pipeVars, envVars>>

\* the while loop ends: on to the next cell
ScanCellDone ==
    /\ pc = "scan"
    /\ start < 0
    /\ pc' = "extract"
    /\ cell' = cell + 1
    /\ UNCHANGED <<cells, start, end, ranges, citations, recorded, returned,
                   pipeVars, envVars>>

\* return citations
ScanReturn ==
    /\ pc = "extract"
    /\ cell > Len(cells)
    /\ pc' = "extracted"
    /\ returned' = Append(returned, citations)
    /\ UNCHANGED <<cells, cell, start, end, ranges, citations, recorded,
                   pipeVars, envVars>>

\* the caller calls _extract_citations(nb) once more: citations = []
ScanAgain ==
    /\ pc = "extracted"
    /\ Len(returned) < 2
    /\ pc' = "extract"
    /\ cell' = 1
    /\ citations' = << >>
    /\ recorded' = << >>
    /\ UNCHANGED <<cells, start, end, ranges, returned, pipeVars, envVars>>

ScanNext == ScanCell \/ ScanStep \/ ScanCellDone \/ ScanReturn \/ ScanAgain

SpecScan == ScanInit /\ [][ScanNext]_vars

(***************************************************************************)
(* preprocess as a process: Spec runs it twice in succession on every      *)
(* short notebook built from NotebookCells, under every state of the file  *)
(* system and every behaviour of the formatter.                            *)
(***************************************************************************)
MaxCells == 3

\* "Citation: [@smith2018]."
Smith == <<"C", "i", "t", "a", "t", "i", "o", "n", ":", " ", "[", "@", "s",
           "m", "i", "t", "h", "2", "0", "1", "8", "]", ".">>

NotebookCells ==
    {Code(<< >>),
     Code(<<" ">>),
     Markdown(<< >>),
     Markdown(Smith),
     Markdown(header_text),
     Markdown(<<"a", "@", "k", " ", "@", "k">>),
     Markdown(<<"@", "a", "-", "@", "b", " ", "@", "b">>),
     Markdown(<<"[", "@", "k">>)}

RECURSIVE NotebooksUpTo(_)
NotebooksUpTo(n) ==
    IF n = 0 THEN {<< >>}
    ELSE LET shorter == NotebooksUpTo(n - 1)
         IN  shorter \cup {Append(nb, c) : nb \in {u \in shorter : Len(u) = n - 1},
                                            c \in NotebookCells}

\* the scanner is not running on its own
ScanIdle ==
    /\ cell = 0
    /\ start = -1
    /\ end = 0
    /\ ranges = << >>
    /\ recorded = << >>
    /\ returned = << >>

Init ==
    /\ cells \in NotebooksUpTo(MaxCells)
    /\ pc = "preprocess"
    /\ citations = << >>
    /\ ScanIdle
    /\ substitutions = << >>
    /\ references = << >>
    /\ error = "none"
    /\ csl_file = ""
    /\ calls = NoCalls
    /\ run = "first"
    /\ original = cells
    /\ stripped = << >>
    /\ finished = << >>
    /\ cslDirs \in SUBSET Range(csl_path)
    /\ bibExists \in BOOLEAN
    /\ pandoc \in {"ok", "norefs", "short", "fail"}

\* self._clear_empty_cells(nb)
Clear ==
    /\ pc = "preprocess"
    /\ cells' = ClearEmptyCells(cells)
    /\ stripped' = cells'
    /\ pc' = "process"
    /\ UNCHANGED <<citations, scanVars, substitutions, references, error,
                   csl_file, calls, run, original, finished, envVars>>

\* _process_citations inside a try block that swallows its exceptions
ProcessCatchingErrors ==
    /\ pc = "process"
    /\ \E r \in {ProcessCitations(cells, cslDirs, bibExists, pandoc)} :
           /\ citations' = r.citations
           /\ substitutions' = r.substitutions
           /\ references' = r.references
           /\ calls' = r.calls
           /\ csl_file' = r.csl_file
           /\ error' = "none"
           /\ pc' = IF r.outcome = "diverges" THEN "diverged" ELSE "processed"
           /\ finished' = finished
    /\ UNCHANGED <<cells, scanVars, run, original, stripped, envVars>>

\* (subs, refs) = self._process_citations(nb)
Process ==
    /\ pc = "process"
    /\ \E r \in {ProcessCitations(cells, cslDirs, bibExists, pandoc)} :
           /\ citations' = r.citations
           /\ substitutions' = r.substitutions
           /\ references' = r.references
           /\ calls' = r.calls
           /\ csl_file' = r.csl_file
           /\ error' = r.error
           /\ pc' = CASE r.outcome = "returns"  -> "processed"
                      [] r.outcome = "raises"   -> "raised"
                      [] r.outcome = "diverges" -> "diverged"
           /\ finished' = IF r.outcome = "raises"
                          THEN Append(finished, cells) ELSE finished
    /\ UNCHANGED <<cells, scanVars, run, original, stripped, envVars>>

\* if refs != "": self._substitute_citations(nb, subs)
Substitute ==
    /\ pc = "processed"
    /\ references # << >>
    /\ cells' = SubstituteCitations(cells, substitutions)
    /\ pc' = "add"
    /\ UNCHANGED <<citations, scanVars, pipeVars, envVars>>

\* self._add_references(nb, refs); return (nb, resources)
AddRefs ==
    /\ pc = "add"
    /\ \E r \in {AddReferences(cells, references)} :
           /\ cells' = r.cells
           /\ pc' = IF r.raises THEN "raised" ELSE "returned"
           /\ error' = IF r.raises THEN "IndexError" ELSE error
           /\ finished' = Append(finished, r.cells)
    /\ UNCHANGED <<citations, scanVars, substitutions, references, csl_file,
                   calls, run, original, stripped, envVars>>

\* refs == "": return (nb, resources)
Return ==
    /\ pc = "processed"
    /\ references = << >>
    /\ pc' = "returned"
    /\ finished' = Append(finished, cells)
    /\ UNCHANGED <<cells, citations, scanVars, substitutions, references,
                   error, csl_file, calls, run, original, stripped, envVars>>

\* the caller runs preprocess on the same notebook again
Rerun ==
    /\ pc \in {"returned", "raised"}
    /\ run = "first"
    /\ run' = "second"
    /\ pc' = "preprocess"
    /\ stripped' = << >>
    /\ citations' = << >>
    /\ substitutions' = << >>
    /\ references' = << >>
    /\ error' = "none"
    /\ csl_file' = ""
    /\ calls' = NoCalls
    /\ UNCHANGED <<cells, scanVars, original, finished, envVars>>

Next == Clear \/ Process \/ Substitute \/ AddRefs \/ Return \/ Rerun

Spec == Init /\ [][Next]_vars

(***************************************************************************)
(* Properties of preprocess, checked under Spec.                           *)
(***************************************************************************)
\* nb.cells when the current run of preprocess was entered
Entered == IF run = "first" THEN original ELSE finished[1]

\* the current run is over: preprocess returned or raised
Ended == pc \in {"returned", "raised"}

\* _process_citations has come back (returned or raised) in the current run
Processed == pc \in {"processed", "add", "returned", "raised"}

StyleResolvable == FindCslFile(cslDirs) # 0

\* nb without its cells of kind code and empty text
WithoutEmptyCode(nb) ==
    SelectSeq(nb, LAMBDA c : ~(c.cell_type = "code" /\ c.source = << >>))

EndsWithPair(nb) == Len(nb) >= 2 /\ nb[Len(nb) - 1].source = header_text

\* C2 (as claimed): the one-cell notebook "Citation: [@smith2018]." with the
\* style file and the bibliography present and a formatter that returns one
\* citation line and a references block: preprocess removes no cell, finds
\* the one marker, calls the formatter once, rewrites the marker and ends
\* with three cells, the rewritten one, "## References" and the block.
C2_EndToEnd ==
    (/\ run = "first"
     /\ Ended
     /\ original = <<Markdown(Smith)>>
     /\ StyleResolvable
     /\ bibExists
     /\ pandoc = "ok")
    => /\ pc = "returned"
       /\ stripped = original
       /\ citations = <<SubSeq(Smith, 11, 22)>>
       /\ calls.pandoc = 1
       /\ Len(cells) = 3
       /\ cells[1].source = SubSeq(Smith, 1, 10)
                            \o substitutions[SubSeq(Smith, 11, 22)]
                            \o SubSeq(Smith, 23, 23)
       /\ cells[2].source = header_text
       /\ cells[3].source = references
       /\ references # << >>

\* C4 (as claimed): for every notebook, with the style file resolvable and
\* the bibliography missing, preprocess raises the bibliography-not-found
\* error, the formatter is never invoked and no cell text is modified (only
\* the empty code cells are gone).
C4_MissingBibliographyRaises ==
    (Ended /\ StyleResolvable /\ ~bibExists)
    => /\ pc = "raised"
       /\ error = "BibliographyNotFound"
       /\ calls.pandoc = 0
       /\ cells = WithoutEmptyCode(Entered)

\* C4 (amended): the same for every notebook in which the scanner finds at
\* least one marker.
C4_MissingBibliographyRaisesWithMarkers ==
    (Processed /\ citations # << >> /\ StyleResolvable /\ ~bibExists)
    => /\ pc = "raised"
       /\ error = "BibliographyNotFound"
       /\ calls.pandoc = 0
       /\ cells = WithoutEmptyCode(Entered)

C4_Witness ==
    /\ pc = "raised"
    /\ error = "BibliographyNotFound"
    /\ StyleResolvable
    /\ citations # << >>
    /\ calls.pandoc = 0
    /\ Len(cells) < Len(Entered)

\* C5 (as claimed): preprocess run twice on a notebook that ends with a
\* references header/body pair: the second run leaves the number of cells
\* and the text of the last cell as the first run left them.
C5_RerunKeepsReferences ==
    (run = "second" /\ Ended /\ EndsWithPair(original))
    => /\ Len(finished[2]) = Len(finished[1])
       /\ finished[2][Len(finished[2])].source
              = finished[1][Len(finished[1])].source

\* the texts between the recorded ranges rs of text, in order: before the
\* first range, between consecutive ranges, after the last
Gaps(text, rs) ==
    [k \in 1..(Len(rs) + 1) |->
        Slice(text,
              IF k = 1 THEN 0 ELSE rs[k - 1][2],
              IF k = Len(rs) + 1 THEN Len(text) ELSE rs[k][1])]

\* result is gaps[1] r1 gaps[2] r2 ... gaps[n] for some texts r1, r2, ...
RECURSIVE KeepsGaps(_, _)
KeepsGaps(result, gaps) ==
    /\ Len(result) >= Len(gaps[1])
    /\ SubSeq(result, 1, Len(gaps[1])) = gaps[1]
    /\ IF Len(gaps) = 1 THEN Len(result) = Len(gaps[1])
       ELSE \E k \in Len(gaps[1])..Len(result) :
                KeepsGaps(SubSeq(result, k + 1, Len(result)), Tail(gaps))

\* C6 (as claimed): after substitution every character of a cell outside
\* the ranges the scanner recorded in that cell is unchanged.
C6_OutsideMarkersUntouched ==
    pc = "add"
    => \A scan \in {ExtractCitations(stripped)} :
           \A i \in 1..Len(cells) :
               KeepsGaps(cells[i].source,
                         Gaps(stripped[i].source, scan.ranges[i]))

C8_NoEmptyCellLeft ==
    pc = "returned" => \A i \in 1..Len(cells) : cells[i].source # << >>

\* C9: when the scanner yields no markers, _process_citations returns an
\* empty table and an empty block without looking up the style file or the
\* bibliography and without invoking the formatter, and preprocess leaves
\* the cells as _clear_empty_cells left them.
C9_NoMarkersNoWork ==
    (Processed /\ citations = << >>)
    => /\ pc \in {"processed", "returned"}
       /\ DOMAIN substitutions = {}
       /\ references = << >>
       /\ calls = NoCalls
       /\ error = "none"
       /\ cells = WithoutEmptyCode(Entered)

C9_Witness ==
    /\ pc = "returned"
    /\ citations = << >>
    /\ Len(cells) = 2
    /\ cslDirs = {}
    /\ ~bibExists
    /\ calls = NoCalls
    /\ cells = WithoutEmptyCode(Entered)

\* C10: _add_references with a non-empty block on a notebook whose
\* second-to-last cell is "## " + header sets the last cell's text to the
\* block and changes nothing else; applied again with the same block it
\* leaves the notebook as it is.
C10_Overwrite ==
    [][(/\ pc = "add"
        /\ pc' # "add"
        /\ references # << >>
        /\ EndsWithPair(cells))
       => /\ pc' = "returned"
          /\ Len(cells') = Len(cells)
          /\ cells'[Len(cells)].source = references
          /\ cells'[Len(cells)].cell_type = cells[Len(cells)].cell_type
          /\ \A i \in 1..(Len(cells) - 1) : cells'[i] = cells[i]
          /\ AddReferences(cells', references).cells = cells']_vars

C10_Witness ==
    /\ pc = "returned"
    /\ run = "first"
    /\ references # << >>
    /\ EndsWithPair(stripped)
    /\ Len(cells) = Len(stripped)
    /\ cells[Len(cells)].source = references
    /\ stripped[Len(cells)].source # references

(***************************************************************************)
(* C1, checked under SpecScan.                                             *)
(***************************************************************************)
\* the text of a recorded range
Literal(r) == Slice(cells[r.cell].source, r.start, r.end)

\* the recorded ranges whose text is m
Appearances(m) == {k \in 1..Len(recorded) : Literal(recorded[k]) = m}

\* range r lies before range q: an earlier cell, or the same cell further left
LeftOf(r, q) == r.cell < q.cell \/ (r.cell = q.cell /\ r.start < q.start)

\* the leftmost appearance of m in the earliest cell
FirstAppearance(m) ==
    recorded[CHOOSE k \in Appearances(m) :
                 \A j \in Appearances(m) \ {k} :
                     ~LeftOf(recorded[j], recorded[k])]

\* C1 (as claimed): the list _extract_citations returns holds each distinct
\* marker literal exactly once, in the order of the literals' first
\* appearance, cells taken in document order and each text left to right.
C1_UniqueInFirstAppearanceOrder ==
    pc = "extracted"
    => /\ Range(citations) = {Literal(recorded[k]) : k \in 1..Len(recorded)}
       /\ \A i, j \in 1..Len(citations) :
              i < j => /\ citations[i] # citations[j]
                       /\ LeftOf(FirstAppearance(citations[i]),
                                 FirstAppearance(citations[j]))

(***************************************************************************)
(* _substitute_citations alone: SpecSubst applies it to notebooks of two   *)
(* cells, the first any short text made of SubstWords, under every table   *)
(* over SubstKeys.                                                         *)
(***************************************************************************)
MaxWords == 3

BracketK == <<"[", "@", "k", "]">>

BareK == <<"@", "k">>

BareKK == <<"@", "k", "k">>

DashK == <<"@", "a", "-", "@", "k">>

\* "see [@k] and @k also"
SeeBoth == <<"s", "e", "e", " ">> \o BracketK \o <<" ", "a", "n", "d", " ">>
           \o BareK \o <<" ", "a", "l", "s", "o">>

SubstKeys == {BracketK, BareK, BareKK, DashK}

PlainWords == {BracketK, BareK, <<"x">>, <<" ">>}

SubstWords == SubstKeys \cup PlainWords

\* the formatted text of each key: no key text in it
Formatted(key) ==
    CASE key = BracketK -> <<"V", "1">>
      [] key = BareK    -> <<"V", "2">>
      [] key = BareKK   -> <<"V", "3">>
      [] key = DashK    -> <<"V", "4">>

\* the tables over SubstKeys: every key with its formatted text, or, for
\* "@a-@k", with the formatted text "k" (no '@' and no '[', but a character
\* of the keys)
Tables ==
    {[k \in D |-> IF k = DashK /\ short THEN <<"k">> ELSE Formatted(k)] :
         D \in (SUBSET SubstKeys) \ {{}}, short \in BOOLEAN}

\* the sequences of at most n words of W
RECURSIVE WordSeqs(_, _)
WordSeqs(W, n) ==
    IF n = 0 THEN {<< >>}
    ELSE LET shorter == WordSeqs(W, n - 1)
         IN  shorter \cup {Append(ws, w) : ws \in {u \in shorter : Len(u) = n - 1},
                                            w \in W}

RECURSIVE Concat(_)
Concat(ws) == IF ws = << >> THEN << >> ELSE Head(ws) \o Concat(Tail(ws))

SubstInit ==
    /\ cells \in {<<Markdown(Concat(ws)), Markdown(SeeBoth)>> :
                      ws \in WordSeqs(SubstWords, MaxWords)}
    /\ pc = "substitute"
    /\ citations = << >>
    /\ ScanIdle
    /\ substitutions \in Tables
    /\ references = << >>
    /\ error = "none"
    /\ csl_file = ""
    /\ calls = NoCalls
    /\ run = "first"
    /\ original = cells
    /\ stripped = << >>
    /\ finished = << >>
    /\ cslDirs = {}
    /\ bibExists = FALSE
    /\ pandoc = "ok"

\* self._substitute_citations(nb, subs)
SubstApply ==
    /\ pc = "substitute"
    /\ cells' = SubstituteCitations(cells, substitutions)
    /\ pc' = "substituted"
    /\ UNCHANGED <<citations, scanVars, pipeVars, envVars>>

SubstNext == SubstApply

SpecSubst == SubstInit /\ [][SubstNext]_vars

\* a plain word after substitution: the two keys by their formatted text
Rewritten(w) == IF w \in {BracketK, BareK} THEN Formatted(w) ELSE w

\* C3: with both "[@k]" and "@k" in the table, the bracketed key is applied
\* before the bare one in every cell: a text made of "[@k]", "@k" and plain
\* words ends with every "[@k]" replaced by the value of "[@k]" and every
\* "@k" by the value of "@k"; "see [@k] and @k also" ends as
\* "see V1 and V2 also".
C3_BracketedBeforeBare ==
    (pc = "substituted" /\ {BracketK, BareK} \subseteq DOMAIN substitutions)
    => \A i \in 1..Len(cells) :
           /\ \A ws \in WordSeqs(PlainWords, MaxWords) :
                  original[i].source = Concat(ws)
                  => cells[i].source
                         = Concat([k \in 1..Len(ws) |-> Rewritten(ws[k])])
           /\ original[i].source = SeeBoth
              => cells[i].source
                     = <<"s", "e", "e", " ", "V", "1", " ", "a", "n", "d", " ",
                         "V", "2", " ", "a", "l", "s", "o">>

C3_Witness ==
    /\ pc = "substituted"
    /\ {BracketK, BareK} \subseteq DOMAIN substitutions
    /\ original[1].source = BracketK \o <<" ">> \o BareK
    /\ cells[1].source = <<"V", "1", " ", "V", "2">>
    /\ original[2].source = SeeBoth
    /\ cells[2].source # SeeBoth

(***************************************************************************)
(* _add_references alone: SpecAdd applies it to every short notebook of    *)
(* NotebookCells, with an empty and a non-empty references block.          *)
(***************************************************************************)
\* the block _process_citations builds for the one marker "[@k]"
BlockK ==
    References(<<BracketK>>, Split(ConvertText(<<BracketK>>, "ok"), "\n"))

AddBlocks == {<< >>, BlockK}

AddInit ==
    /\ cells \in NotebooksUpTo(MaxCells)
    /\ pc = "add_references"
    /\ citations = << >>
    /\ ScanIdle
    /\ substitutions = << >>
    /\ references \in AddBlocks
    /\ error = "none"
    /\ csl_file = ""
    /\ calls = NoCalls
    /\ run = "first"
    /\ original = cells
    /\ stripped = << >>
    /\ finished = << >>
    /\ cslDirs = {}
    /\ bibExists = FALSE
    /\ pandoc = "ok"

\* self._add_references(nb, references)
AddApply ==
    /\ pc = "add_references"
    /\ \E r \in {AddReferences(cells, references)} :
           /\ cells' = r.cells
           /\ pc' = IF r.raises THEN "add_raised" ELSE "added"
           /\ error' = IF r.raises THEN "IndexError" ELSE error
    /\ UNCHANGED <<citations, scanVars, substitutions, references, csl_file,
                   calls, run, original, stripped, finished, envVars>>

AddNext == AddApply

SpecAdd == AddInit /\ [][AddNext]_vars

\* _add_references is over: it returned or raised
AddEnded == pc \in {"added", "add_raised"}

\* C11: with a non-empty block and a second-to-last cell whose text is not
\* "## " + header, _add_references appends exactly two markdown cells, the
\* header and then the block, and leaves every earlier cell as it was; with
\* an empty block it leaves the notebook unchanged.
C11_AppendOrNothing ==
    AddEnded
    => /\ (/\ references # << >>
           /\ Len(original) >= 2
           /\ original[Len(original) - 1].source # header_text)
          => /\ pc = "added"
             /\ Len(cells) = Len(original) + 2
             /\ SubSeq(cells, 1, Len(original)) = original
             /\ cells[Len(original) + 1] = Markdown(header_text)
             /\ cells[Len(original) + 2] = Markdown(references)
       /\ references = << >> => (pc = "added" /\ cells = original)

C11_Witness ==
    /\ pc = "added"
    /\ references = BlockK
    /\ Len(original) = 2
    /\ original[1].cell_type = "code"
    /\ original[2].source = header_text
    /\ Len(cells) = 4
    /\ cells[4].source = BlockK

(***************************************************************************)
(* C12, checked under SpecSubst.                                           *)
(***************************************************************************)
\* key occurs in text
Contains(text, key) ==
    \E i \in 0..(Len(text) - Len(key)) : SubSeq(text, i + 1, i + Len(key)) = key

\* no other key of the table lies inside key
Outermost(key) ==
    \A other \in DOMAIN substitutions \ {key} : ~Contains(key, other)

\* a text made of key, "x" and " " ends with every key replaced by its value
AllOccurrencesReplaced ==
    \A i \in 1..Len(cells) :
        \A key \in {k \in DOMAIN substitutions : Outermost(k)} :
            \A ws \in WordSeqs({key, <<"x">>, <<" ">>}, MaxWords) :
                original[i].source = Concat(ws)
                => cells[i].source
                       = Concat([k \in 1..Len(ws) |->
                                    IF ws[k] = key THEN substitutions[key]
                                    ELSE ws[k]])

NoKeyLeft ==
    \A i \in 1..Len(cells) :
        \A key \in DOMAIN substitutions : ~Contains(cells[i].source, key)

C13_FirstDirectoryOrRaise ==
    (Processed /\ calls.csl = 1)
    => /\ error = "StyleFileNotFound"
          <=> \A i \in 1..Len(csl_path) : csl_path[i] \notin cslDirs
       /\ error = "StyleFileNotFound"
          => /\ pc = "raised"
             /\ csl_file = ""
             /\ calls.pandoc = 0
             /\ cells = WithoutEmptyCode(Entered)
       /\ error # "StyleFileNotFound"
          => \E i \in 1..Len(csl_path) :
                 /\ csl_file = csl_path[i]
                 /\ csl_path[i] \in cslDirs
                 /\ \A j \in 1..(i - 1) : csl_path[j] \notin cslDirs

C13_Witness ==
    /\ Processed
    /\ calls.csl = 1
    /\ cslDirs = Range(csl_path)
    /\ csl_file = csl_path[1]
    /\ calls.pandoc = 1

(***************************************************************************)
(* C14 to C17, checked under SpecScan.                                     *)
(***************************************************************************)
\* the text of the cell a recorded range is in
SourceOf(r) == cells[r.cell].source

\* the backward search of the iteration found a '[' and took it
Bracketed(r) == r.start # r.at

\* C14 (as claimed): a marker recorded for a '[' the backward search found
\* runs from that '[' to the first ']' at or after the '@', inclusive: it
\* is not empty, starts with '[', ends with ']' and holds the '@'.
C14_BracketedSpan ==
    \A k \in 1..Len(recorded) :
        Bracketed(recorded[k])
        => LET r   == recorded[k]
               src == SourceOf(r)
           IN  /\ src[r.start + 1] = "["
               /\ Find(src, "]", r.at) # -1
               /\ r.end = Find(src, "]", r.at) + 1
               /\ r.start < r.at
               /\ r.at < r.end
               /\ Literal(r) # << >>
               /\ Literal(r)[1] = "["
               /\ Literal(r)[Len(Literal(r))] = "]"

\* the '@' at 0-based position m of src follows '[', ' ' or '-'
KeyToken(src, m) == src[m + 1] = "@" /\ m > 0 /\ src[m] \in {"[", " ", "-"}

\* the brackets of src that hold several '@key' tokens: <<i, j>> with '['
\* at i, ']' at j and no bracket character between
MultiBrackets(src) ==
    {b \in (0..(Len(src) - 1)) \X (0..(Len(src) - 1)) :
        /\ b[1] < b[2]
        /\ src[b[1] + 1] = "["
        /\ src[b[2] + 1] = "]"
        /\ \A m \in (b[1] + 1)..(b[2] - 1) : src[m + 1] \notin {"[", "]"}
        /\ Cardinality({m \in (b[1] + 1)..(b[2] - 1) : KeyToken(src, m)}) >= 2}

\* C15 (as claimed): a bracket holding several '@key' tokens is extracted
\* as exactly one marker, the whole bracket with both brackets, and no
\* marker is produced for a key inside it.
C15_MultiBracketIsOneMarker ==
    pc = "extracted"
    => \A c \in 1..Len(cells) :
           \A b \in MultiBrackets(cells[c].source) :
               /\ Cardinality({k \in 1..Len(recorded) :
                                  /\ recorded[k].cell = c
                                  /\ recorded[k].start = b[1]
                                  /\ recorded[k].end = b[2] + 1}) = 1
               /\ \A k \in 1..Len(recorded) :
                      recorded[k].cell = c
                      => recorded[k].start \notin (b[1] + 1)..b[2]

\* the positions at or after from where a bare marker stops
Stops(src, from) ==
    {i \in from..(Len(src) - 1) : src[i + 1] \in {" ", ",", "."}}

\* C16: an '@' at a qualifying start with no '[' between the scan cursor
\* and the '@' yields a bare marker: it starts at the '@' and ends just
\* before the first space, comma or period at or after it, or at the end of
\* the text when there is none.
C16_BareSpan ==
    \A k \in 1..Len(recorded) :
        LET r   == recorded[k]
            src == SourceOf(r)
        IN  (\A i \in r.from..(r.at - 1) : src[i + 1] # "[")
            => /\ r.start = r.at
               /\ r.end = IF Stops(src, r.at) = {} THEN Len(src)
                          ELSE Min(Stops(src, r.at))
               /\ Literal(r)[1] = "@"
               /\ \A i \in 1..Len(Literal(r)) :
                      Literal(r)[i] \notin {" ", ",", "."}

C16_Witness ==
    /\ pc = "extracted"
    /\ Len(recorded) = 2
    /\ ~Bracketed(recorded[1])
    /\ ~Bracketed(recorded[2])
    /\ recorded[1].end < Len(cells[1].source)
    /\ cells[1].source[recorded[1].end + 1] = ","
    /\ recorded[2].end = Len(cells[1].source)

\* C17 (as claimed): every iteration of the scan loop moves the scan cursor
\* strictly forward (so the loop ends on every text).
C17_CursorMovesForward ==
    [][(pc = "scan" /\ <<start, end, ranges>>' # <<start, end, ranges>>)
       => end' > end]_vars

(***************************************************************************)
(* C18, checked under SpecSubst.                                           *)
(***************************************************************************)
\* C18 (as claimed): of two keys of the table of which one lies inside the
\* other, the longer is applied first: a text made of one key, "x" and " "
\* ends with every occurrence of the key replaced by the key's own value,
\* whatever shorter keys the table holds.
C18_LongerKeyFirst ==
    pc = "substituted"
    => \A i \in 1..Len(cells) :
           \A key \in DOMAIN substitutions :
               \A ws \in WordSeqs({key, <<"x">>, <<" ">>}, MaxWords) :
                   original[i].source = Concat(ws)
                   => cells[i].source
                          = Concat([k \in 1..Len(ws) |->
                                       IF ws[k] = key THEN substitutions[key]
                                       ELSE ws[k]])

FormatterFails ==
    /\ calls.pandoc = 1
    /\ pandoc = "fail" \/ (pandoc = "short" /\ Len(citations) > 1)

\* C20: an error raised while the markers are resolved leaves preprocess
\* uncaught; the formatter is invoked at most once in a run, and when the
\* error is raised no cell text has been modified and no cell appended.
C20_FormatterFailurePropagates ==
    /\ calls.pandoc <= 1
    /\ (Processed /\ FormatterFails)
       => /\ pc = "raised"
          /\ error = IF pandoc = "fail" THEN "FormatterFailure"
                     ELSE "IndexError"
          /\ substitutions = << >>
          /\ references = << >>
          /\ cells = WithoutEmptyCode(Entered)

C20_Witness ==
    /\ pc = "raised"
    /\ error = "IndexError"
    /\ pandoc = "short"
    /\ calls.pandoc = 1
    /\ Len(citations) = 2
    /\ Len(cells) = 2
    /\ cells = WithoutEmptyCode(Entered)

(***************************************************************************)
(* C21, checked under SpecScan.                                            *)
(***************************************************************************)
UserAtHost == <<"u", "s", "e", "r", "@", "h", "o", "s", "t">>

\* the '@' at 0-based position at of src is not at 0 and follows none of
\* '[', ' ' and '-'
NonQualifying(src, at) == at > 0 /\ src[at] \notin {"[", " ", "-"}

\* C21: an '@' that is not at position 0 and follows none of '[', space and
\* '-' never starts a marker: its iteration adds nothing to the marker list
\* and no range, and moves the cursor to the character just after the '@';
\* "user@host" yields no marker.
C21_NonQualifyingAtSkipped ==
    /\ [](\A k \in 1..Len(recorded) :
              ~NonQualifying(SourceOf(recorded[k]), recorded[k].at))
    /\ []((pc = "extracted" /\ cells[1].source = UserAtHost)
              => citations = << >>)
    /\ [][(/\ pc = "scan"
           /\ start >= 0
           /\ NonQualifying(cells[cell].source, start)
           /\ <<start, end>>' # <<start, end>>)
          => /\ citations' = citations
             /\ ranges' = ranges
             /\ recorded' = recorded
             /\ end' = start + 1
             /\ start' = Find(cells[cell].source, "@", start + 1)]_vars

C21_Witness ==
    /\ pc = "extracted"
    /\ cells[1].source = UserAtHost
    /\ end = 5
    /\ recorded = << >>
    /\ citations = << >>

(***************************************************************************)
(* C22, checked under Spec.                                                *)
(***************************************************************************)
\* lines are the lines of text: joined by newlines they give text, and none
\* holds a newline
LinesOf(text, lines) ==
    /\ Join(lines, <<"\n">>) = text
    /\ \A i \in 1..Len(lines) : "\n" \notin Range(lines[i])

\* value is line without its first 26 and its last 11 characters (nothing
\* is left of a line of fewer than 37)
Stripped(line, value) ==
    IF Len(line) < 37 THEN value = << >>
    ELSE /\ Len(value) = Len(line) - 37
         /\ \A i \in 1..Len(value) : value[i] = line[26 + i]

\* block is the lines after the first n, joined with "\n<p></p>\n": split
\* at its newlines it is those lines with "<p></p>" between them
BlockOf(lines, n, block) ==
    IF Len(lines) = n THEN block = << >>
    ELSE \A parts \in {Split(block, "\n")} :
             /\ Len(parts) = 2 * (Len(lines) - n) - 1
             /\ \A j \in 1..Len(parts) :
                    parts[j] = IF j % 2 = 1 THEN lines[n + (j + 1) \div 2]
                               ELSE <<"<", "p", ">", "<", "/", "p", ">">>

\* C22: with n >= 1 markers and formatter output of at least n lines,
\* _process_citations returns a table whose keys are exactly the markers,
\* the i-th marker mapped to the i-th line without its first 26 and last 11
\* characters, and a block made of the remaining lines joined with
\* "\n<p></p>\n".
C22_TableAndBlock ==
    (Processed /\ calls.pandoc = 1 /\ pandoc # "fail")
    => \A lines \in {Split(ConvertText(citations, pandoc), "\n")} :
           /\ LinesOf(ConvertText(citations, pandoc), lines)
           /\ Len(lines) >= Len(citations)
              => /\ error \notin {"FormatterFailure", "BibliographyNotFound",
                                  "StyleFileNotFound"}
                 /\ DOMAIN substitutions = Range(citations)
                 /\ \A i \in 1..Len(citations) :
                        Stripped(lines[i], substitutions[citations[i]])
                 /\ BlockOf(lines, Len(citations), references)

C22_Witness ==
    /\ pc = "processed"
    /\ pandoc = "ok"
    /\ Len(citations) = 2
    /\ substitutions[citations[1]] = Render(citations[1])
    /\ substitutions[citations[2]] = Render(citations[2])
    /\ Len(references) > Len(Entry(citations[1])) + Len(Entry(citations[2]))

(***************************************************************************)
(* C23, checked under SpecScan.                                            *)
(***************************************************************************)
\* C23: _extract_citations does not modify the notebook (number, order,
\* kind and text of the cells), and called twice on the unchanged notebook
\* it returns the same list in the same order.
C23_ReadOnlyAndRepeatable ==
    /\ [][cells' = cells]_vars
    /\ [](Len(returned) = 2 => returned[1] = returned[2])

C23_Witness ==
    /\ pc = "extracted"
    /\ Len(returned) = 2
    /\ Len(returned[2]) = 2
    /\ returned[2][1][1] = "["
    /\ returned[2][2][1] = "@"
    /\ cells = original

(***************************************************************************)
(* C24, checked under Spec.                                                *)
(***************************************************************************)
\* C24 (as claimed): whenever the scanner found markers and the formatter
\* call succeeded, preprocess returns with the table applied to every cell
\* left by _clear_empty_cells (the last one may since hold the references
\* block), also when the references block is empty.
C24_TableAppliedAlsoWithoutBlock ==
    (pc = "returned" /\ citations # << >> /\ error = "none")
    => \A applied \in {SubstituteCitations(stripped, substitutions)} :
           \A i \in 1..Len(stripped) :
               \/ cells[i].source = applied[i].source
               \/ /\ i = Len(stripped)
                  /\ references # << >>
                  /\ cells[i].source = references

(***************************************************************************)
(* C25, checked under SpecScan.                                            *)
(***************************************************************************)
\* source.rfind('[', end, start) of the iteration about to run, -2 when the
\* loop is over or the '@' does not pass the test of line 118
BackwardSearch ==
    IF start >= 0 /\ Qualifies(cells[cell].source, [start |-> start])
    THEN RFind(cells[cell].source, "[", end, start)
    ELSE -2

\* C25 (as claimed): inside the while loop of one cell the recorded ranges
\* are pairwise disjoint, in strictly increasing position order, and each
\* ends at or before the cursor (end); hence the backward search for '[',
\* which starts at the cursor, never returns an index inside a recorded
\* range.
C25_RangesDisjointAndIncreasing ==
    pc = "scan"
    => /\ \A k \in 1..Len(ranges) : ranges[k][2] <= end
       /\ \A j \in 1..Len(ranges) :
              \A k \in (j + 1)..Len(ranges) :
                  /\ ranges[j][1] < ranges[k][1]
                  /\ ranges[j][2] <= ranges[k][1]
       /\ BackwardSearch >= 0 => ~IsIndexInRanges(BackwardSearch, ranges)

(***************************************************************************)
(* C26, checked under SpecAdd.                                             *)
(***************************************************************************)
\* C26 (as claimed): when _add_references returns normally with a non-empty
\* block, the last two cells are a markdown cell "## " + header and a
\* markdown cell holding the block, whatever cells were at the tail before.
C26_EndsWithMarkdownPair ==
    (pc = "added" /\ references # << >>)
    => /\ Len(cells) >= 2
       /\ cells[Len(cells) - 1] = Markdown(header_text)
       /\ cells[Len(cells)] = Markdown(references)

====
